---------------------------- MODULE Spec2Model ----------------------------
(***************************************************************************)
(* Model of voltron/core.py: the Server request broker (handle_request,    *)
(* dispatch_queue, cancel_queue, dispatch_request, start, stop) and the    *)
(* Client (send_requests, update, run, stop).                              *)
(*                                                                         *)
(* Threads of the server side: NumWorkers connection threads, each making  *)
(* one handle_request call, and the single debugger host thread, which     *)
(* calls start(), stop() and dispatch_queue() one after the other.  A      *)
(* request object is identified with the worker whose call created it.     *)
(***************************************************************************)
EXTENDS Naturals, Sequences, FiniteSets

\* Number of connection threads calling Server.handle_request.
NumWorkers == 2

Workers == 1..NumWorkers

\* Number of listeners repeated start() calls may add up to.
MaxListeners == 2

None == "None"
\* Holders of Server.queue_lock, and the threads that run the Dispatcher.
Free == [thread |-> "none", id |-> 0]
Host == [thread |-> "host", id |-> 0]
Worker(w) == [thread |-> "worker", id |-> w]

\* Response classes of voltron.api named in core.py, and a successful result.
APIServerNotRunningErrorResponse == "APIServerNotRunningErrorResponse"
APIDebuggerNotPresentErrorResponse == "APIDebuggerNotPresentErrorResponse"
APIInvalidRequestErrorResponse == "APIInvalidRequestErrorResponse"
APIPluginNotFoundErrorResponse == "APIPluginNotFoundErrorResponse"
APIMissingFieldErrorResponse == "APIMissingFieldErrorResponse"
APIGenericErrorResponse == "APIGenericErrorResponse"
APITimedOutErrorResponse == "APITimedOutErrorResponse"
APISuccessResponse == "APISuccessResponse"
\* Outcome of a call that does not return: the exception leaves the callee.
Raised == "Raised"

\* What the payload of a request is: unparsable, of a type no plugin
\* provides, or a well-formed request with block false or true.
BadParse == "badparse"
NoPlugin == "noplugin"
NonBlocking == "nonblocking"
Blocking == "blocking"
ReqKinds == {BadParse, NoPlugin, NonBlocking, Blocking}

\* What validate() and dispatch() of a request do when the Dispatcher runs
\* them: both return, validate raises MissingFieldError, validate raises
\* another exception, dispatch raises an exception.
Ok == "ok"
MissingField == "missing_field"
ValidateRaises == "validate_raises"
DispatchRaises == "dispatch_raises"
Behaviours == {Ok, MissingField, ValidateRaises, DispatchRaises}

\* Listener configuration: whether start() runs the TCP listener (line 162)
\* and the domain socket listener (line 165: a path is configured and the
\* platform is not win32).
Configs == [tcp : BOOLEAN, domain : BOOLEAN]

\* The transports start() can run a listener for.
Transports == {"tcp", "domain"}

VARIABLES
    is_running,     \* Server.is_running
    queue,          \* Server.queue: sequence of requests
    queue_lock,     \* Server.queue_lock: Free or the thread holding it
    listeners,      \* Server.listeners: sequence of listener names
    threads,        \* Server.threads: sequence of listener thread names
    serving,        \* number of listener threads of each transport that
                    \* are inside serve_forever
    config,         \* the listener configuration
    debugger,       \* voltron.debugger is set
    pc,             \* position of each worker in handle_request
    kind,           \* payload of each worker's request
    response,       \* req.response of each request
    signalled,      \* req.wait_event is set
    timed_out,      \* req.timed_out
    res,            \* what each handle_request call returned
    dispatchedBy,   \* threads that ran dispatch_request on each request
    behaved,        \* what each request did when it was dispatched
    hpc,            \* position of the host thread
    q,              \* the local list q of cancel_queue / dispatch_queue
    hi,             \* index of the host's current loop over q
    waitingAtStop,  \* calls that were waiting, their requests queued, when
                    \* stop() was called, and have not returned since
    abandoned,      \* requests of a batch that dispatch_queue left by an
                    \* exception before signalling them
    hostRaised,     \* an exception reached the host loop
    startRaised,    \* an exception left start()
    \* Client
    done,               \* Client.done
    server_version,     \* Client.server_version
    block,              \* Client.block
    supports_blocking,  \* Client.supports_blocking
    sentNull,           \* the last null request Client.run sent
    cpc,                \* position of the thread inside Client.run
    caller,             \* the place update() was called from
    reqs,               \* the requests update() built
    tstate,             \* state of each ClientThread of send_requests
    tresponse,          \* ClientThread.response
    texception,         \* ClientThread.exception
    ti,                 \* index of the start / join loop of send_requests
    finished,           \* the ClientThreads in the order they finished
    results,            \* what the last send_requests call returned or raised
    lastCallback,       \* argument of the last call of Client.callback
    iterSent,           \* requests sent since the loop condition was tested
    iterCallbacks,      \* callback calls since the loop condition was tested
    error               \* the exception that left Client.run, if any

svars == <<is_running, queue, queue_lock, listeners, threads, serving, config,
           debugger, pc, kind, response, signalled, timed_out, res,
           dispatchedBy, behaved, hpc, q, hi, waitingAtStop, abandoned,
           hostRaised, startRaised>>

cvars == <<done, server_version, block, supports_blocking, sentNull, cpc,
           caller, reqs,
           tstate, tresponse, texception, ti, finished, results, lastCallback,
           iterSent, iterCallbacks, error>>

vars == <<svars, cvars>>

---------------------------------------------------------------------------
(* Pure helpers *)

\* list.remove(x) guarded by "x in list": drops the first occurrence.
RECURSIVE Remove(_, _)
Remove(s, x) ==
    IF s = <<>> THEN <<>>
    ELSE IF Head(s) = x THEN Tail(s)
    ELSE <<Head(s)>> \o Remove(Tail(s), x)

InSeq(s, x) == \E i \in 1..Len(s) : s[i] = x


\* Server.dispatch_request: the response it returns, or Raised when the
\* exception is not one of those it catches.
DispatchRequest(b) ==
    IF b = MissingField THEN APIMissingFieldErrorResponse
    ELSE IF b = ValidateRaises THEN Raised
    ELSE IF b = DispatchRaises THEN APIGenericErrorResponse
    ELSE APISuccessResponse

\* Faulty variant: the debugger is looked for before is_running is tested.
PreDispatchDebuggerFirst(running, dbg, k) ==
    IF ~dbg THEN APIDebuggerNotPresentErrorResponse
    ELSE IF ~running THEN APIServerNotRunningErrorResponse
    ELSE IF k = BadParse THEN APIInvalidRequestErrorResponse
    ELSE IF k = NoPlugin THEN APIPluginNotFoundErrorResponse
    ELSE None

\* The checks of handle_request before queueing or dispatching: the error
\* response they produce, or None when the request passes them.
PreDispatch(running, dbg, k) ==
    IF ~running THEN APIServerNotRunningErrorResponse
    ELSE IF ~dbg THEN APIDebuggerNotPresentErrorResponse
    ELSE IF k = BadParse THEN APIInvalidRequestErrorResponse
    ELSE IF k = NoPlugin THEN APIPluginNotFoundErrorResponse
    ELSE None

\* Faulty variant: every request that passed the checks is dispatched on the
\* worker thread.
RouteAlwaysDispatch(k) == "dispatching"

\* Faulty variant: every request that passed the checks is queued.
RouteAlwaysQueue(k) == "append"

\* Line 225: where handle_request sends a request that passed the checks:
\* to the queue when it blocks, else straight to the Dispatcher.
Route(k) == IF k = Blocking THEN "append" ELSE "dispatching"

\* req.wait(): the values it can leave in req.timed_out.  It returns at once
\* when the event is set, and at the deadline otherwise.
WaitOutcomes(sig) == IF sig THEN {FALSE} ELSE {TRUE}

\* Faulty variant: the timeout flag is not looked at.
WaitResultIgnoresTimeout(timedOut, resp) == resp

\* The response handle_request picks after req.wait() returned.
WaitResult(timedOut, resp) ==
    IF timedOut THEN APITimedOutErrorResponse ELSE resp

---------------------------------------------------------------------------
(* Server.__init__ *)

ServerInit ==
    /\ is_running = FALSE
    /\ queue = <<>>
    /\ queue_lock = Free
    /\ listeners = <<>>
    /\ threads = <<>>
    /\ serving = [t \in Transports |-> 0]
    /\ config \in Configs
    /\ debugger \in BOOLEAN
    /\ pc = [w \in Workers |-> "idle"]
    /\ kind = [w \in Workers |-> None]
    /\ response = [w \in Workers |-> None]
    /\ signalled = [w \in Workers |-> FALSE]
    /\ timed_out = [w \in Workers |-> FALSE]
    /\ res = [w \in Workers |-> None]
    /\ dispatchedBy = [w \in Workers |-> <<>>]
    /\ behaved = [w \in Workers |-> None]
    /\ hpc = "idle"
    /\ q = <<>>
    /\ hi = 1
    /\ waitingAtStop = {}
    /\ abandoned = {}
    /\ hostRaised = FALSE
    /\ startRaised = FALSE

hostVars == <<hpc, q, hi, abandoned, hostRaised, startRaised>>
listenerVars == <<listeners, threads, serving, config>>
reqVars == <<response, signalled>>

---------------------------------------------------------------------------
(* Server.handle_request, one action per step of a worker thread.  The two  *)
(* critical sections (lines 226-228 and 240-243) are one step each, taken   *)
(* when the lock is free: while a worker holds the lock it does nothing but *)
(* the append or the removal, and nobody else reads or writes the queue.    *)

\* Lines 195-223 and 247-250: the pre-dispatch checks on the incoming data.
HandleRequestCheck(w) ==
    /\ pc[w] = "idle"
    /\ \E k \in ReqKinds :
         LET r == PreDispatch(is_running, debugger, k) IN
         /\ kind' = [kind EXCEPT ![w] =
                        IF is_running /\ debugger THEN k ELSE None]
         /\ IF r # None
            THEN /\ res' = [res EXCEPT ![w] = r]
                 /\ pc' = [pc EXCEPT ![w] = "done"]
            ELSE /\ res' = res
                 /\ pc' = [pc EXCEPT ![w] = Route(k)]
    /\ UNCHANGED cvars
    /\ UNCHANGED <<is_running, queue, queue_lock, listenerVars, debugger,
                   reqVars, timed_out, dispatchedBy, behaved, hostVars,
                   waitingAtStop>>

\* Line 246: a non-blocking request is dispatched on the worker thread; an
\* exception dispatch_request lets through leaves handle_request.
HandleRequestDispatch(w) ==
    /\ pc[w] = "dispatching"
    /\ \E b \in Behaviours :
         LET r == DispatchRequest(b) IN
         /\ behaved' = [behaved EXCEPT ![w] = b]
         /\ dispatchedBy' = [dispatchedBy EXCEPT ![w] = Append(@, Worker(w))]
         /\ IF r = Raised
            THEN /\ pc' = [pc EXCEPT ![w] = "raised"]
                 /\ res' = res
            ELSE /\ pc' = [pc EXCEPT ![w] = "done"]
                 /\ res' = [res EXCEPT ![w] = r]
    /\ UNCHANGED cvars
    /\ UNCHANGED <<is_running, queue, queue_lock, listenerVars, debugger,
                   kind, reqVars, timed_out, hostVars, waitingAtStop>>

\* Lines 226-228: take the lock, append the request, release the lock.
HandleRequestAppend(w) ==
    /\ pc[w] = "append"
    /\ queue_lock = Free
    /\ queue' = Append(queue, w)
    /\ queue_lock' = Free
    /\ pc' = [pc EXCEPT ![w] = "wait"]
    /\ UNCHANGED cvars
    /\ UNCHANGED <<is_running, listenerVars, debugger, kind, reqVars,
                   timed_out, res, dispatchedBy, behaved, hostVars,
                   waitingAtStop>>

\* Lines 232-237: req.wait() returns, signalled or at its deadline, and the
\* response to return is chosen.
HandleRequestWait(w) ==
    /\ pc[w] = "wait"
    /\ \E t \in WaitOutcomes(signalled[w]) :
         /\ timed_out' = [timed_out EXCEPT ![w] = t]
         /\ res' = [res EXCEPT ![w] = WaitResult(t, response[w])]
    /\ pc' = [pc EXCEPT ![w] = "remove"]
    /\ UNCHANGED cvars
    /\ UNCHANGED <<is_running, queue, queue_lock, listenerVars, debugger,
                   kind, reqVars, dispatchedBy, behaved, hostVars,
                   waitingAtStop>>

\* Faulty variant: the worker pops the head of the queue, whatever it is.
RemoveFromQueueHead(qu, w) == IF qu # <<>> THEN Tail(qu) ELSE qu

\* Faulty variant: the worker leaves its request on the queue.
RemoveFromQueueSkipped(qu, w) == qu

\* The queue after lines 241-242.
RemoveFromQueue(qu, w) == IF InSeq(qu, w) THEN Remove(qu, w) ELSE qu

\* Lines 240-243 and 250: take the lock, remove the request if it is still
\* queued, release the lock and return.
HandleRequestRemove(w) ==
    /\ pc[w] = "remove"
    /\ queue_lock = Free
    /\ queue' = RemoveFromQueue(queue, w)
    /\ queue_lock' = Free
    /\ pc' = [pc EXCEPT ![w] = "done"]
    /\ UNCHANGED cvars
    /\ UNCHANGED <<is_running, listenerVars, debugger, kind, reqVars,
                   timed_out, res, dispatchedBy, behaved, hostVars,
                   waitingAtStop>>

\* The two critical sections of handle_request with the lock made visible:
\* taking the lock is a step of its own, the queue operation and the release
\* are the next.

\* Line 226.
HandleRequestAcquireAppend(w) ==
    /\ pc[w] = "append"
    /\ queue_lock = Free
    /\ queue_lock' = Worker(w)
    /\ pc' = [pc EXCEPT ![w] = "appending"]
    /\ UNCHANGED cvars
    /\ UNCHANGED <<is_running, queue, listenerVars, debugger, kind, reqVars,
                   timed_out, res, dispatchedBy, behaved, hostVars,
                   waitingAtStop>>

\* Lines 227-228.
HandleRequestAppendRelease(w) ==
    /\ pc[w] = "appending"
    /\ queue' = Append(queue, w)
    /\ queue_lock' = Free
    /\ pc' = [pc EXCEPT ![w] = "wait"]
    /\ UNCHANGED cvars
    /\ UNCHANGED <<is_running, listenerVars, debugger, kind, reqVars,
                   timed_out, res, dispatchedBy, behaved, hostVars,
                   waitingAtStop>>

\* Line 240.
HandleRequestAcquireRemove(w) ==
    /\ pc[w] = "remove"
    /\ queue_lock = Free
    /\ queue_lock' = Worker(w)
    /\ pc' = [pc EXCEPT ![w] = "removing"]
    /\ UNCHANGED cvars
    /\ UNCHANGED <<is_running, queue, listenerVars, debugger, kind, reqVars,
                   timed_out, res, dispatchedBy, behaved, hostVars,
                   waitingAtStop>>

\* Lines 241-243 and 250.
HandleRequestRemoveRelease(w) ==
    /\ pc[w] = "removing"
    /\ queue' = RemoveFromQueue(queue, w)
    /\ queue_lock' = Free
    /\ pc' = [pc EXCEPT ![w] = "done"]
    /\ UNCHANGED cvars
    /\ UNCHANGED <<is_running, listenerVars, debugger, kind, reqVars,
                   timed_out, res, dispatchedBy, behaved, hostVars,
                   waitingAtStop>>

\* handle_request with the lock steps visible.
HandleRequestLocking(w) ==
    \/ HandleRequestCheck(w)
    \/ HandleRequestDispatch(w)
    \/ HandleRequestAcquireAppend(w)
    \/ HandleRequestAppendRelease(w)
    \/ HandleRequestWait(w)
    \/ HandleRequestAcquireRemove(w)
    \/ HandleRequestRemoveRelease(w)

HandleRequest(w) ==
    \/ HandleRequestCheck(w)
    \/ HandleRequestDispatch(w)
    \/ HandleRequestAppend(w)
    \/ HandleRequestWait(w)
    \/ HandleRequestRemove(w)

---------------------------------------------------------------------------
(* Server.start, on the host thread *)

\* Position of the host before, and inside, run_listener for a transport.
RunPc(name) == IF name = "tcp" THEN "run_tcp" ELSE "run_domain"

ThreadPc(name) == IF name = "tcp" THEN "tcp_thread" ELSE "domain_thread"

ListenerPc(name) ==
    IF name = "tcp" THEN "tcp_listener" ELSE "domain_listener"

\* Position of the host after run_listener for a transport: line 164 after
\* the TCP listener, line 173 after the domain listener.
AfterPc(name) == IF name = "tcp" THEN "run_domain" ELSE "start_running"

\* Line 155: a second server cannot bind the TCP address while a listener
\* of this server holds it; the socket path of the domain listener is
\* unlinked first (lines 166-169) and can be bound again.
AddressInUse(name) == name = "tcp" /\ InSeq(listeners, "tcp")

\* Faulty variant: only the TCP listener is started and recorded.
RunListenerTcpOnly(configured, name, lst) ==
    IF configured /\ name = "tcp" THEN Append(lst, name) ELSE lst

\* The list after run_listener (lines 152-160) has recorded the thread or
\* the listener of one transport, when it is configured.
RunListener(configured, name, lst) ==
    IF configured THEN Append(lst, name) ELSE lst

\* Lines 139-150: start() is called, on a server that is running or not,
\* and builds the application.
Start ==
    /\ hpc = "idle"
    /\ config.tcp \/ Len(threads) < MaxListeners
    /\ hpc' = "run_tcp"
    /\ UNCHANGED cvars
    /\ UNCHANGED <<is_running, queue, queue_lock, listenerVars, debugger, pc,
                   kind, reqVars, timed_out, res, dispatchedBy, behaved, q,
                   hi, waitingAtStop, abandoned, hostRaised, startRaised>>

\* Lines 162 and 164, then lines 155-158 of run_listener: when the transport
\* is configured its socket is bound and its thread started, which enters
\* serve_forever; binding an address in use raises out of start().
RunListenerStart(name) ==
    /\ hpc = RunPc(name)
    /\ IF ~config[name]
       THEN /\ hpc' = AfterPc(name)
            /\ UNCHANGED <<serving, startRaised>>
       ELSE IF AddressInUse(name)
       THEN /\ hpc' = "idle"
            /\ startRaised' = TRUE
            /\ UNCHANGED serving
       ELSE /\ hpc' = ThreadPc(name)
            /\ serving' = [serving EXCEPT ![name] = @ + 1]
            /\ UNCHANGED startRaised
    /\ UNCHANGED cvars
    /\ UNCHANGED <<is_running, queue, queue_lock, listeners, threads, config,
                   debugger, pc, kind, reqVars, timed_out, res, dispatchedBy,
                   behaved, q, hi, waitingAtStop, abandoned, hostRaised>>

\* Line 159: the thread is recorded.
RunListenerThread(name) ==
    /\ hpc = ThreadPc(name)
    /\ threads' = RunListener(config[name], name, threads)
    /\ hpc' = ListenerPc(name)
    /\ UNCHANGED cvars
    /\ UNCHANGED <<is_running, queue, queue_lock, listeners, serving, config,
                   debugger, pc, kind, reqVars, timed_out, res, dispatchedBy,
                   behaved, q, hi, waitingAtStop, abandoned, hostRaised,
                   startRaised>>

\* Line 160: the listener is recorded.
RunListenerListener(name) ==
    /\ hpc = ListenerPc(name)
    /\ listeners' = RunListener(config[name], name, listeners)
    /\ hpc' = AfterPc(name)
    /\ UNCHANGED cvars
    /\ UNCHANGED <<is_running, queue, queue_lock, threads, serving, config,
                   debugger, pc, kind, reqVars, timed_out, res, dispatchedBy,
                   behaved, q, hi, waitingAtStop, abandoned, hostRaised,
                   startRaised>>

\* Line 173.
StartRunning ==
    /\ hpc = "start_running"
    /\ is_running' = TRUE
    /\ hpc' = "idle"
    /\ UNCHANGED cvars
    /\ UNCHANGED <<queue, queue_lock, listenerVars, debugger, pc, kind,
                   reqVars, timed_out, res, dispatchedBy, behaved, q, hi,
                   waitingAtStop, abandoned, hostRaised, startRaised>>

\* Server.start.
StartStep ==
    \/ Start
    \/ \E name \in Transports : RunListenerStart(name)
    \/ \E name \in Transports : RunListenerThread(name)
    \/ \E name \in Transports : RunListenerListener(name)
    \/ StartRunning

---------------------------------------------------------------------------
(* Server.stop and Server.cancel_queue, on the host thread *)

\* Line 180: stop() is called and takes the queue lock.
StopAcquire ==
    /\ hpc = "idle"
    /\ queue_lock = Free
    /\ queue_lock' = Host
    /\ waitingAtStop' = waitingAtStop \cup
            {w \in Workers : pc[w] = "wait" /\ InSeq(queue, w)}
    /\ hi' = 1
    /\ hpc' = "stop_shutdown"
    /\ UNCHANGED cvars
    /\ UNCHANGED <<is_running, queue, listenerVars, debugger, pc, kind,
                   reqVars, timed_out, res, dispatchedBy, behaved, q,
                   abandoned, hostRaised, startRaised>>

\* Lines 181-184: one iteration of the loop over the listeners, or its end.
\* shutdown() returns when the listener's thread has left serve_forever;
\* then the socket is closed.
StopShutdown ==
    /\ hpc = "stop_shutdown"
    /\ IF hi <= Len(listeners)
       THEN /\ serving' = [serving EXCEPT ![listeners[hi]] = @ - 1]
            /\ hi' = hi + 1
            /\ hpc' = hpc
       ELSE /\ serving' = serving
            /\ hi' = 1
            /\ hpc' = "cancel_swap"
    /\ UNCHANGED cvars
    /\ UNCHANGED <<is_running, queue, queue_lock, listeners, threads, config,
                   debugger, pc, kind, reqVars, timed_out, res, dispatchedBy,
                   behaved, q, waitingAtStop, abandoned, hostRaised,
                   startRaised>>

\* Lines 256-257 of cancel_queue: the queue is copied and emptied.
CancelQueueSwap ==
    /\ hpc = "cancel_swap"
    /\ q' = queue
    /\ queue' = <<>>
    /\ hi' = 1
    /\ hpc' = "cancel_respond"
    /\ UNCHANGED cvars
    /\ UNCHANGED <<is_running, queue_lock, listenerVars, debugger, pc, kind,
                   reqVars, timed_out, res, dispatchedBy, behaved,
                   waitingAtStop, abandoned, hostRaised, startRaised>>

\* Faulty variant: cancel_queue answers with the timeout error.
CancelResponseTimedOut == APITimedOutErrorResponse

\* The response cancel_queue stores on a request (line 260).
CancelResponse == APIServerNotRunningErrorResponse

\* Lines 259-260: one iteration of the first loop, or its end.
CancelQueueRespond ==
    /\ hpc = "cancel_respond"
    /\ IF hi <= Len(q)
       THEN /\ response' = [response EXCEPT ![q[hi]] = CancelResponse]
            /\ hi' = hi + 1
            /\ hpc' = hpc
       ELSE /\ response' = response
            /\ hi' = 1
            /\ hpc' = "cancel_signal"
    /\ UNCHANGED cvars
    /\ UNCHANGED <<is_running, queue, queue_lock, listenerVars, debugger, pc,
                   kind, signalled, timed_out, res, dispatchedBy, behaved, q,
                   waitingAtStop, abandoned, hostRaised, startRaised>>

\* Lines 261-262: one iteration of the second loop, or its end.
CancelQueueSignal ==
    /\ hpc = "cancel_signal"
    /\ IF hi <= Len(q)
       THEN /\ signalled' = [signalled EXCEPT ![q[hi]] = TRUE]
            /\ hi' = hi + 1
            /\ hpc' = hpc
       ELSE /\ signalled' = signalled
            /\ hi' = 1
            /\ hpc' = "stop_join"
    /\ UNCHANGED cvars
    /\ UNCHANGED <<is_running, queue, queue_lock, listenerVars, debugger, pc,
                   kind, response, timed_out, res, dispatchedBy, behaved, q,
                   waitingAtStop, abandoned, hostRaised, startRaised>>

\* Lines 186-187: the listener threads are joined; each has left
\* serve_forever.
StopJoin ==
    /\ hpc = "stop_join"
    /\ \A i \in 1..Len(threads) : serving[threads[i]] = 0
    /\ hpc' = "stop_listeners"
    /\ UNCHANGED cvars
    /\ UNCHANGED <<is_running, queue, queue_lock, listenerVars, debugger, pc,
                   kind, reqVars, timed_out, res, dispatchedBy, behaved, q,
                   hi, waitingAtStop, abandoned, hostRaised, startRaised>>

\* Line 188.
StopClearListeners ==
    /\ hpc = "stop_listeners"
    /\ listeners' = <<>>
    /\ hpc' = "stop_threads"
    /\ UNCHANGED cvars
    /\ UNCHANGED <<is_running, queue, queue_lock, threads, serving, config,
                   debugger, pc, kind, reqVars, timed_out, res, dispatchedBy,
                   behaved, q, hi, waitingAtStop, abandoned, hostRaised,
                   startRaised>>

\* Line 189.
StopClearThreads ==
    /\ hpc = "stop_threads"
    /\ threads' = <<>>
    /\ hpc' = "stop_running"
    /\ UNCHANGED cvars
    /\ UNCHANGED <<is_running, queue, queue_lock, listeners, serving, config,
                   debugger, pc, kind, reqVars, timed_out, res, dispatchedBy,
                   behaved, q, hi, waitingAtStop, abandoned, hostRaised,
                   startRaised>>

\* Line 190.
StopNotRunning ==
    /\ hpc = "stop_running"
    /\ is_running' = FALSE
    /\ hpc' = "stop_release"
    /\ UNCHANGED cvars
    /\ UNCHANGED <<queue, queue_lock, listenerVars, debugger, pc, kind,
                   reqVars, timed_out, res, dispatchedBy, behaved, q, hi,
                   waitingAtStop, abandoned, hostRaised, startRaised>>

\* Faulty variant: stop() returns without releasing the queue lock.
StopReleaseKeepsLock ==
    /\ hpc = "stop_release"
    /\ q' = <<>>
    /\ hpc' = "idle"
    /\ UNCHANGED cvars
    /\ UNCHANGED <<is_running, queue, queue_lock, listenerVars, debugger, pc,
                   kind, reqVars, timed_out, res, dispatchedBy, behaved, hi,
                   waitingAtStop, abandoned, hostRaised, startRaised>>

\* Line 191: the queue lock is released; stop() returns.
StopRelease ==
    /\ hpc = "stop_release"
    /\ queue_lock' = Free
    /\ q' = <<>>
    /\ hpc' = "idle"
    /\ UNCHANGED cvars
    /\ UNCHANGED <<is_running, queue, listenerVars, debugger, pc, kind,
                   reqVars, timed_out, res, dispatchedBy, behaved, hi,
                   waitingAtStop, abandoned, hostRaised, startRaised>>

\* Server.stop, with cancel_queue.
StopStep ==
    \/ StopAcquire
    \/ StopShutdown
    \/ CancelQueueSwap
    \/ CancelQueueRespond
    \/ CancelQueueSignal
    \/ StopJoin
    \/ StopClearListeners
    \/ StopClearThreads
    \/ StopNotRunning
    \/ StopRelease

---------------------------------------------------------------------------
(* Server.dispatch_queue, on the host thread *)

\* Line 270: dispatch_queue() is called and takes the queue lock.
DispatchQueueAcquire ==
    /\ hpc = "idle"
    /\ queue_lock = Free
    /\ queue_lock' = Host
    /\ hpc' = "dispatch_swap"
    /\ UNCHANGED cvars
    /\ UNCHANGED <<is_running, queue, listenerVars, debugger, pc, kind,
                   reqVars, timed_out, res, dispatchedBy, behaved, q, hi,
                   waitingAtStop, abandoned, hostRaised, startRaised>>

\* Faulty variant: the batch is taken in reverse order.
BatchReversed(qu) == [i \in 1..Len(qu) |-> qu[Len(qu) + 1 - i]]

\* The batch dispatch_queue takes from the queue (line 271).
Batch(qu) == qu

\* Faulty variant: dispatch_queue forgets to empty the queue.
QueueAfterSwapKept(qu) == qu

\* The queue dispatch_queue leaves behind (line 272).
QueueAfterSwap(qu) == <<>>

\* Faulty variant: the lock is kept while the batch is processed.
DispatchQueueSwapKeepsLock ==
    /\ hpc = "dispatch_swap"
    /\ q' = Batch(queue)
    /\ queue' = QueueAfterSwap(queue)
    /\ hi' = 1
    /\ hpc' = "dispatch_each"
    /\ UNCHANGED cvars
    /\ UNCHANGED <<is_running, queue_lock, listenerVars, debugger, pc, kind,
                   reqVars, timed_out, res, dispatchedBy, behaved,
                   waitingAtStop, abandoned, hostRaised, startRaised>>

\* Lines 271-273: the queue is copied and emptied, the lock released.
DispatchQueueSwap ==
    /\ hpc = "dispatch_swap"
    /\ q' = Batch(queue)
    /\ queue' = QueueAfterSwap(queue)
    /\ queue_lock' = Free
    /\ hi' = 1
    /\ hpc' = "dispatch_each"
    /\ UNCHANGED cvars
    /\ UNCHANGED <<is_running, listenerVars, debugger, pc, kind, reqVars,
                   timed_out, res, dispatchedBy, behaved, waitingAtStop,
                   abandoned, hostRaised, startRaised>>

\* Faulty variant: the signalling pass starts after the first dispatch.
DispatchQueueDispatchThenSignal ==
    /\ hpc = "dispatch_each"
    /\ IF hi <= Len(q)
       THEN \E b \in Behaviours :
              LET r == DispatchRequest(b) IN
              /\ behaved' = [behaved EXCEPT ![q[hi]] = b]
              /\ dispatchedBy' =
                    [dispatchedBy EXCEPT ![q[hi]] = Append(@, Host)]
              /\ IF r = Raised
                 THEN /\ hostRaised' = TRUE
                      /\ abandoned' =
                            abandoned \cup {q[j] : j \in 1..Len(q)}
                      /\ response' = response
                      /\ q' = <<>>
                      /\ hpc' = "idle"
                 ELSE /\ hostRaised' = hostRaised
                      /\ abandoned' = abandoned
                      /\ response' = [response EXCEPT ![q[hi]] = r]
                      /\ q' = q
                      /\ hpc' = "dispatch_signal"
       ELSE /\ hpc' = "dispatch_signal"
            /\ UNCHANGED <<behaved, dispatchedBy, hostRaised, abandoned,
                           response, q>>
    /\ hi' = 1
    /\ UNCHANGED cvars
    /\ UNCHANGED <<is_running, queue, queue_lock, listenerVars, debugger, pc,
                   kind, signalled, timed_out, res, waitingAtStop,
                   startRaised>>

\* Lines 275-276: one iteration of the first loop, or its end.  An exception
\* that dispatch_request lets through leaves dispatch_queue: the rest of the
\* batch is neither dispatched nor signalled.
DispatchQueueDispatch ==
    /\ hpc = "dispatch_each"
    /\ IF hi <= Len(q)
       THEN \E b \in Behaviours :
              LET r == DispatchRequest(b) IN
              /\ behaved' = [behaved EXCEPT ![q[hi]] = b]
              /\ dispatchedBy' =
                    [dispatchedBy EXCEPT ![q[hi]] = Append(@, Host)]
              /\ IF r = Raised
                 THEN /\ hostRaised' = TRUE
                      /\ abandoned' =
                            abandoned \cup {q[j] : j \in 1..Len(q)}
                      /\ response' = response
                      /\ hi' = 1
                      /\ q' = <<>>
                      /\ hpc' = "idle"
                 ELSE /\ hostRaised' = hostRaised
                      /\ abandoned' = abandoned
                      /\ response' = [response EXCEPT ![q[hi]] = r]
                      /\ hi' = hi + 1
                      /\ q' = q
                      /\ hpc' = hpc
       ELSE /\ hi' = 1
            /\ hpc' = "dispatch_signal"
            /\ UNCHANGED <<behaved, dispatchedBy, hostRaised, abandoned,
                           response, q>>
    /\ UNCHANGED cvars
    /\ UNCHANGED <<is_running, queue, queue_lock, listenerVars, debugger, pc,
                   kind, signalled, timed_out, res, waitingAtStop,
                   startRaised>>

\* Lines 277-278: one iteration of the second loop, or its end.
DispatchQueueSignal ==
    /\ hpc = "dispatch_signal"
    /\ IF hi <= Len(q)
       THEN /\ signalled' = [signalled EXCEPT ![q[hi]] = TRUE]
            /\ hi' = hi + 1
            /\ q' = q
            /\ hpc' = hpc
       ELSE /\ signalled' = signalled
            /\ hi' = 1
            /\ q' = <<>>
            /\ hpc' = "idle"
    /\ UNCHANGED cvars
    /\ UNCHANGED <<is_running, queue, queue_lock, listenerVars, debugger, pc,
                   kind, response, timed_out, res, dispatchedBy, behaved,
                   waitingAtStop, abandoned, hostRaised, startRaised>>

\* Server.dispatch_queue.
DispatchQueueStep ==
    \/ DispatchQueueAcquire
    \/ DispatchQueueSwap
    \/ DispatchQueueDispatch
    \/ DispatchQueueSignal

HostStep ==
    \/ StartStep
    \/ StopStep
    \/ DispatchQueueStep

---------------------------------------------------------------------------
(* Client *)

\* Number of requests build_requests returns at most.
MaxBatch == 2

ConnectionError == "ConnectionError"
OtherError == "OtherError"
BlockingNotSupportedError == "BlockingNotSupportedError"

\* What a response with the given capabilities and success flag looks like.
VersionResponse(async) ==
    [type |-> "version", async |-> async, is_success |-> TRUE]
NullResponse(ok) == [type |-> "null", async |-> FALSE, is_success |-> ok]
NoVersion == [type |-> None, async |-> FALSE, is_success |-> FALSE]

\* The response send_request returns for the request at position i.
ResponseTo(i) == [request |-> i]
NoResponse == [request |-> 0]
\* The exception a failed send_request of the request at position i raises.
ExceptionOf(k, i) == [exception |-> k, request |-> i]
NoException == [exception |-> None, request |-> 0]

\* Faulty variant: the null request is sent with block false.
NullRequestNonBlocking == [type |-> "null", block |-> FALSE]

\* The request perform_request('null', block=True) creates (line 561).
NullRequest == [type |-> "null", block |-> TRUE]
NoRequest == [type |-> None, block |-> FALSE]

\* Before the first send_requests call returned: no result, which no call
\* can return, and before the first callback: an argument no call passes.
NoResult ==
    [raised |-> FALSE, exception |-> NoException, responses |-> <<NoResponse>>]
NoCallback == [results |-> <<NoResponse>>, error |-> FALSE]

\* Client.__init__ (lines 410-415).
ClientInit ==
    /\ done = FALSE
    /\ server_version = NoVersion
    /\ block = FALSE
    /\ supports_blocking \in BOOLEAN
    /\ sentNull = NoRequest
    /\ cpc = "loop"
    /\ caller = None
    /\ reqs = <<>>
    /\ tstate = <<>>
    /\ tresponse = <<>>
    /\ texception = <<>>
    /\ ti = 1
    /\ finished = <<>>
    /\ results = NoResult
    /\ lastCallback = NoCallback
    /\ iterSent = <<>>
    /\ iterCallbacks = 0
    /\ error = None

threadVars == <<reqs, tstate, tresponse, texception, ti, finished>>

\* Faulty variant: the done flag is only looked at while negotiating.
RunLoopChecksDoneLate ==
    /\ cpc = "loop"
    /\ cpc' = IF server_version # NoVersion THEN "mode"
              ELSE IF done THEN "exit" ELSE "version"
    /\ iterSent' = <<>>
    /\ iterCallbacks' = 0
    /\ UNCHANGED svars
    /\ UNCHANGED <<done, server_version, block, supports_blocking, sentNull,
                   caller,
                   threadVars, results, lastCallback, error>>

\* Line 540 and line 544: the loop condition, then whether a server version
\* is cached.
RunLoop ==
    /\ cpc = "loop"
    /\ cpc' = IF done THEN "exit"
              ELSE IF server_version = NoVersion THEN "version" ELSE "mode"
    /\ iterSent' = <<>>
    /\ iterCallbacks' = 0
    /\ UNCHANGED svars
    /\ UNCHANGED <<done, server_version, block, supports_blocking, sentNull,
                   caller,
                   threadVars, results, lastCallback, error>>

\* Faulty variant: the transport's blocking support is tested first.
NegotiateBlockingFirst(version, supports) ==
    IF supports THEN "block"
    ELSE IF version.async THEN "update"
    ELSE BlockingNotSupportedError

\* Lines 548-554: what the client does with a version response: "update"
\* (async mode), "block" (blocking mode) or the error it raises.
Negotiate(version, supports) ==
    IF version.async THEN "update"
    ELSE IF supports THEN "block"
    ELSE BlockingNotSupportedError

\* Lines 545-554: the version request and the choice of mode.
RunVersion ==
    /\ cpc = "version"
    /\ iterSent' = Append(iterSent, "version")
    /\ \/ \E async \in BOOLEAN :
            LET v == VersionResponse(async)
                n == Negotiate(v, supports_blocking) IN
            /\ server_version' = v
            /\ IF n = "update"
               THEN /\ cpc' = "update"
                    /\ caller' = "negotiate"
                    /\ UNCHANGED <<block, error>>
               ELSE IF n = "block"
               THEN /\ block' = TRUE
                    /\ cpc' = "mode"
                    /\ UNCHANGED <<caller, error>>
               ELSE /\ cpc' = "raised"
                    /\ error' = n
                    /\ UNCHANGED <<block, caller>>
       \/ /\ cpc' = "except"
          /\ UNCHANGED <<server_version, block, caller, error>>
       \/ /\ cpc' = "raised"
          /\ error' = OtherError
          /\ UNCHANGED <<server_version, block, caller>>
    /\ UNCHANGED svars
    /\ UNCHANGED <<done, supports_blocking, sentNull,
                   threadVars, results, lastCallback,
                   iterCallbacks>>

\* Line 556: the mode decides between an update and a null request.
RunMode ==
    /\ cpc = "mode"
    /\ IF block
       THEN /\ cpc' = "update"
            /\ caller' = "blocking"
       ELSE /\ cpc' = "null"
            /\ caller' = caller
    /\ UNCHANGED svars
    /\ UNCHANGED <<done, server_version, block, supports_blocking, sentNull,
                   threadVars,
                   results, lastCallback, iterSent, iterCallbacks, error>>

\* Lines 561-564: the null request, sent with block=True.
RunNull ==
    /\ cpc = "null"
    /\ iterSent' = Append(iterSent, "null")
    /\ sentNull' = NullRequest
    /\ \/ \E ok \in BOOLEAN :
            LET r == NullResponse(ok) IN
            IF r.is_success
            THEN /\ server_version' = r
                 /\ cpc' = "update"
                 /\ caller' = "async"
                 /\ error' = error
            ELSE /\ cpc' = "loop"
                 /\ UNCHANGED <<server_version, caller, error>>
       \/ /\ cpc' = "except"
          /\ UNCHANGED <<server_version, caller, error>>
       \/ /\ cpc' = "raised"
          /\ error' = OtherError
          /\ UNCHANGED <<server_version, caller>>
    /\ UNCHANGED svars
    /\ UNCHANGED <<done, block, supports_blocking, threadVars, results,
                   lastCallback, iterCallbacks>>

\* Lines 512-514 of update and line 471 of send_requests: the requests are
\* built, each gets the client's block flag, and one ClientThread is created
\* per request.
UpdateBuild ==
    /\ cpc = "update"
    /\ \E n \in 0..MaxBatch :
         /\ reqs' = [i \in 1..n |-> [block |-> block]]
         /\ tstate' = [i \in 1..n |-> "new"]
         /\ tresponse' = [i \in 1..n |-> NoResponse]
         /\ texception' = [i \in 1..n |-> NoException]
    /\ ti' = 1
    /\ finished' = <<>>
    /\ iterSent' = Append(iterSent, "update")
    /\ cpc' = "start"
    /\ UNCHANGED svars
    /\ UNCHANGED <<done, server_version, block, supports_blocking, sentNull,
                   caller,
                   results, lastCallback, iterCallbacks, error>>

\* Lines 472-473: one iteration of the loop starting the threads, or its end.
SendRequestsStart ==
    /\ cpc = "start"
    /\ IF ti <= Len(tstate)
       THEN /\ tstate' = [tstate EXCEPT ![ti] = "running"]
            /\ ti' = ti + 1
            /\ cpc' = cpc
       ELSE /\ tstate' = tstate
            /\ ti' = 1
            /\ cpc' = "join"
    /\ UNCHANGED svars
    /\ UNCHANGED <<done, server_version, block, supports_blocking, sentNull,
                   caller,
                   reqs, tresponse, texception, finished, results,
                   lastCallback, iterSent, iterCallbacks, error>>

\* ClientThread.run (lines 384-388): the request is sent; the response or the
\* exception is kept on the thread.
ClientThreadRun(i) ==
    /\ i \in 1..Len(tstate)
    /\ tstate[i] = "running"
    /\ tstate' = [tstate EXCEPT ![i] = "finished"]
    /\ finished' = Append(finished, i)
    /\ \/ /\ tresponse' = [tresponse EXCEPT ![i] = ResponseTo(i)]
          /\ texception' = texception
       \/ \E k \in {ConnectionError, OtherError} :
            /\ texception' = [texception EXCEPT ![i] = ExceptionOf(k, i)]
            /\ tresponse' = tresponse
    /\ UNCHANGED svars
    /\ UNCHANGED <<done, server_version, block, supports_blocking, sentNull,
                   cpc, caller,
                   reqs, ti, results, lastCallback, iterSent, iterCallbacks,
                   error>>

\* Lines 474-475: one iteration of the loop joining the threads, or its end.
SendRequestsJoin ==
    /\ cpc = "join"
    /\ IF ti <= Len(tstate)
       THEN /\ tstate[ti] = "finished"
            /\ ti' = ti + 1
            /\ cpc' = cpc
       ELSE /\ ti' = 1
            /\ cpc' = "return"
    /\ UNCHANGED svars
    /\ UNCHANGED <<done, server_version, block, supports_blocking, sentNull,
                   caller,
                   reqs, tstate, tresponse, texception, finished, results,
                   lastCallback, iterSent, iterCallbacks, error>>

\* Line 476: the exceptions of the threads, in thread order.
Exceptions(exc) == SelectSeq(exc, LAMBDA e : e # NoException)

\* Faulty variant: the responses are returned in the order of completion.
SendRequestsResultArrival(resp, exc) ==
    IF Len(Exceptions(exc)) > 0
    THEN [raised |-> TRUE, exception |-> Exceptions(exc)[1], responses |-> <<>>]
    ELSE [raised |-> FALSE, exception |-> NoException,
          responses |-> [j \in 1..Len(finished) |-> resp[finished[j]]]]

\* Lines 476-479: what send_requests raises or returns.
SendRequestsResult(resp, exc) ==
    IF Len(Exceptions(exc)) > 0
    THEN [raised |-> TRUE, exception |-> Exceptions(exc)[1], responses |-> <<>>]
    ELSE [raised |-> FALSE, exception |-> NoException, responses |-> resp]

\* Lines 476-479, 515-518 and the return to Client.run (line 550 after the
\* update of line 549): send_requests returns or raises; update passes the
\* results to the callback.
UpdateReturn ==
    /\ cpc = "return"
    /\ LET r == SendRequestsResult(tresponse, texception) IN
       /\ results' = r
       /\ IF r.raised
          THEN /\ cpc' = IF r.exception.exception = ConnectionError
                         THEN "except" ELSE "raised"
               /\ error' = IF r.exception.exception = ConnectionError
                           THEN error ELSE OtherError
               /\ UNCHANGED <<lastCallback, iterCallbacks, block>>
          ELSE /\ lastCallback' = [results |-> r.responses, error |-> FALSE]
               /\ iterCallbacks' = iterCallbacks + 1
               /\ block' = IF caller = "negotiate" THEN FALSE ELSE block
               /\ cpc' = IF caller = "negotiate" THEN "mode" ELSE "loop"
               /\ error' = error
    /\ UNCHANGED svars
    /\ UNCHANGED <<done, server_version, supports_blocking, sentNull,
                   caller, threadVars,
                   iterSent>>

\* Faulty variant: the cached server version survives a connection failure.
RunExceptKeepsVersion ==
    /\ cpc = "except"
    /\ lastCallback' = [results |-> <<>>, error |-> TRUE]
    /\ iterCallbacks' = iterCallbacks + 1
    /\ cpc' = "loop"
    /\ UNCHANGED svars
    /\ UNCHANGED <<done, server_version, block, supports_blocking, sentNull,
                   caller,
                   threadVars, results, iterSent, error>>

\* Lines 565-568: a ConnectionError is reported to the callback, the cached
\* version dropped, and the loop resumes after the sleep.
RunExcept ==
    /\ cpc = "except"
    /\ lastCallback' = [results |-> <<>>, error |-> TRUE]
    /\ iterCallbacks' = iterCallbacks + 1
    /\ server_version' = NoVersion
    /\ cpc' = "loop"
    /\ UNCHANGED svars
    /\ UNCHANGED <<done, block, supports_blocking, sentNull,
                   caller, threadVars, results,
                   iterSent, error>>

\* Client.stop (line 587), called from another thread.
ClientStop ==
    /\ ~done
    /\ done' = TRUE
    /\ UNCHANGED svars
    /\ UNCHANGED <<server_version, block, supports_blocking, sentNull,
                   cpc, caller,
                   threadVars, results, lastCallback, iterSent, iterCallbacks,
                   error>>

ClientStep ==
    \/ RunLoop
    \/ RunVersion
    \/ RunMode
    \/ RunNull
    \/ UpdateBuild
    \/ SendRequestsStart
    \/ \E i \in 1..MaxBatch : ClientThreadRun(i)
    \/ SendRequestsJoin
    \/ UpdateReturn
    \/ RunExcept
    \/ ClientStop

---------------------------------------------------------------------------
(* Specifications *)

\* The server with its worker and host threads; the client does not run.
Init ==
    /\ ServerInit
    /\ config = [tcp |-> TRUE, domain |-> TRUE]
    /\ ClientInit
    /\ supports_blocking = TRUE

Next ==
    \/ HostStep
    \/ \E w \in Workers : HandleRequest(w)

Spec == Init /\ [][Next]_vars

\* The client alone: Client.run on its thread, the ClientThreads of
\* send_requests, and Client.stop called from outside.
ClientSpecInit ==
    /\ ServerInit
    /\ config = [tcp |-> TRUE, domain |-> TRUE]
    /\ debugger = FALSE
    /\ ClientInit

ClientSpec == ClientSpecInit /\ [][ClientStep]_vars


\* The host finishes the start(), stop() or dispatch_queue() call it is in.
HostInProgress == HostStep /\ hpc # "idle"

\* A waiting worker whose request was signalled wakes up.
SignalledWait(w) == HandleRequestWait(w) /\ signalled[w]

\* The server under the scheduling the threads get: a call in progress on
\* the host goes on, a signalled worker wakes up, and a worker waiting for
\* the queue lock gets it if the lock is free again and again.
FairSpec ==
    /\ Init
    /\ [][Next]_vars
    /\ WF_vars(HostInProgress)
    /\ \A w \in Workers :
          WF_vars(SignalledWait(w)) /\ SF_vars(HandleRequestRemove(w))

\* A step of the thread in Client.run or of a ClientThread it started.
ClientRunStep ==
    \/ RunLoop
    \/ RunVersion
    \/ RunMode
    \/ RunNull
    \/ UpdateBuild
    \/ SendRequestsStart
    \/ \E i \in 1..MaxBatch : ClientThreadRun(i)
    \/ SendRequestsJoin
    \/ UpdateReturn
    \/ RunExcept

\* The client whose threads go on and whose requests all return or fail.
ClientFairSpec ==
    /\ ClientSpecInit
    /\ [][ClientStep]_vars
    /\ WF_vars(ClientRunStep)

\* The server with every acquisition of the queue lock a visible step, and
\* the debugger attached.
LockNext ==
    \/ HostStep
    \/ \E w \in Workers : HandleRequestLocking(w)

LockInit == Init /\ debugger = TRUE

LockSpec == LockInit /\ [][LockNext]_vars

\* The life cycle of the server under every listener configuration: the host
\* calls start() and stop(), the workers handle requests.
LifecycleInit ==
    /\ ServerInit
    /\ ClientInit
    /\ supports_blocking = TRUE

LifecycleNext ==
    \/ StartStep
    \/ StopStep
    \/ \E w \in Workers : HandleRequest(w)

LifecycleSpec == LifecycleInit /\ [][LifecycleNext]_vars

\* A started server whose host never calls dispatch_queue() nor stop().
TimeoutNext ==
    \/ StartStep
    \/ \E w \in Workers : HandleRequest(w)

\* Every worker goes on with its call; a wait ends at its deadline.
TimeoutSpec ==
    /\ Init
    /\ [][TimeoutNext]_vars
    /\ \A w \in Workers : WF_vars(HandleRequest(w))

---------------------------------------------------------------------------
(* Properties of the server *)

Count(s, x) == Cardinality({i \in 1..Len(s) : s[i] = x})

Without(s, x) == SelectSeq(s, LAMBDA y : y # x)

\* C1: every request that is on the queue when dispatch_queue swaps the queue
\* out is in that batch exactly once and no longer on the queue; a request
\* is never on the queue twice, never both on the queue and in a batch, and
\* never handed to the Dispatcher more than once, whatever the interleaving
\* of handle_request, dispatch_queue and cancel_queue.
C1_DispatchedAtMostOnce ==
    [][/\ \A w \in Workers :
            /\ Len(dispatchedBy'[w]) <= 1
            /\ Count(queue', w) + Count(q', w) <= 1
       /\ (hpc = "dispatch_swap" /\ hpc' = "dispatch_each") =>
            \A w \in Workers :
                Count(queue, w) = 1 => Count(q', w) = 1 /\ Count(queue', w) = 0
      ]_vars

\* Both requests were queued, taken in one batch and dispatched by the host.
C1_Witness ==
    /\ hpc = "dispatch_signal"
    /\ Len(q) = NumWorkers
    /\ \A w \in Workers : dispatchedBy[w] = <<Host>>

\* C4: a blocking call that has returned has left nothing on the queue, and
\* the removal after waking takes out this request only: the other queued
\* requests stay, in order, and removing a request that a swap already took
\* leaves the queue as it is.
C4_RemovedAfterReturn ==
    [][\A w \in Workers :
          /\ pc'[w] = "done" => ~InSeq(queue', w)
          /\ (pc[w] = "remove" /\ pc'[w] = "done") =>
                /\ queue' = Without(queue, w)
                /\ ~InSeq(queue, w) => queue' = queue
      ]_vars

\* Worker 1 was dispatched and has returned while worker 2's request stays
\* queued: the removal was a no-op that left the other request alone.
C4_Witness ==
    /\ pc[1] = "done"
    /\ kind[1] = Blocking
    /\ res[1] = APISuccessResponse
    /\ queue = <<2>>

\* The call of worker w ended in the pre-dispatch checks.
FailedChecks(w) == pc[w] = "done" /\ kind[w] \in {None, BadParse, NoPlugin}

\* C6: handle_request answers by the first failing check, in the order
\* is_running, debugger, parse, plugin, and returns at once: the step that
\* runs the checks ends the call, and the request is never queued, never
\* dispatched and never waited on.
C6_PreDispatchErrors ==
    [][\A w \in Workers :
          /\ (pc[w] = "idle" /\ pc'[w] # "idle") =>
                /\ ~is_running =>
                      res'[w] = APIServerNotRunningErrorResponse
                /\ (is_running /\ ~debugger) =>
                      res'[w] = APIDebuggerNotPresentErrorResponse
                /\ (is_running /\ debugger /\ kind'[w] = BadParse) =>
                      res'[w] = APIInvalidRequestErrorResponse
                /\ (is_running /\ debugger /\ kind'[w] = NoPlugin) =>
                      res'[w] = APIPluginNotFoundErrorResponse
                /\ (~is_running \/ ~debugger \/ kind'[w] \in {BadParse, NoPlugin})
                      => pc'[w] = "done" /\ queue' = queue
          /\ FailedChecks(w)' =>
                /\ dispatchedBy'[w] = <<>>
                /\ ~InSeq(queue', w) /\ ~InSeq(q', w)
                /\ response'[w] = None /\ ~signalled'[w] /\ ~timed_out'[w]
          /\ FailedChecks(w) => FailedChecks(w)' /\ res'[w] = res[w]
      ]_vars

\* One call was refused before start() finished, the other for its plugin.
C6_Witness ==
    /\ FailedChecks(1) /\ res[1] = APIServerNotRunningErrorResponse
    /\ FailedChecks(2) /\ res[2] = APIPluginNotFoundErrorResponse

\* C7: a non-blocking request that passed the checks goes straight to the
\* Dispatcher on the worker's own thread, and the response the Dispatcher
\* returns is the result of the call; no step of such a call changes the
\* queue or the queue lock, and its dispatch can run whoever holds the lock:
\* it waits neither for the lock nor for the host.
C7_NonBlockingLeavesQueue ==
    [][\A w \in Workers :
          /\ (pc[w] = "idle" /\ kind'[w] = NonBlocking) =>
                pc'[w] = "dispatching"
          /\ (kind'[w] = NonBlocking /\ pc'[w] # pc[w]) =>
                /\ queue' = queue
                /\ queue_lock' = queue_lock
                /\ pc'[w] \in {"dispatching", "done", "raised"}
          /\ (kind[w] = NonBlocking /\ pc[w] = "dispatching") =>
                /\ ENABLED HandleRequestDispatch(w)
                /\ pc'[w] # pc[w] =>
                      /\ dispatchedBy'[w] = <<Worker(w)>>
                      /\ pc'[w] = "done" =>
                            res'[w] = DispatchRequest(behaved'[w])
          /\ kind'[w] = NonBlocking =>
                ~InSeq(queue', w) /\ ~InSeq(q', w) /\ ~signalled'[w]
      ]_vars

\* A non-blocking call has returned its result while stop() holds the lock
\* and the other worker's request is still queued.
C7_Witness ==
    /\ pc[1] = "done" /\ kind[1] = NonBlocking
    /\ res[1] = APISuccessResponse
    /\ queue_lock = Host
    /\ queue = <<2>>

\* Positions of the host thread inside stop().
StopPcs ==
    {"stop_shutdown", "cancel_swap", "cancel_respond", "cancel_signal",
     "stop_join", "stop_listeners", "stop_threads", "stop_running",
     "stop_release"}

\* C2 as stated: every call that was waiting on its queued request when
\* stop() was invoked returns the ServerNotRunning error response.
C2_AllReturnServerNotRunning ==
    \A w \in waitingAtStop :
        pc[w] = "done" => res[w] = APIServerNotRunningErrorResponse

\* C2, amended: a call that was waiting on its queued request when stop() was
\* invoked returns ServerNotRunning, unless its wait ran into its deadline
\* before cancel_queue signalled it, and then it returns TimedOut; the
\* request is never dispatched; every such call returns; and stop() itself
\* returns, with the listener threads joined, is_running false and the queue
\* lock released.
C2_ShutdownUnderLoad ==
    /\ [](\A w \in waitingAtStop :
             /\ dispatchedBy[w] = <<>>
             /\ pc[w] \in {"remove", "done"} =>
                   res[w] = IF timed_out[w]
                            THEN APITimedOutErrorResponse
                            ELSE APIServerNotRunningErrorResponse)
    /\ \A w \in Workers : (w \in waitingAtStop) ~> (pc[w] = "done")
    /\ (hpc \in StopPcs) ~>
          (hpc = "idle" /\ ~is_running /\ threads = <<>> /\ queue_lock = Free)

\* Every worker was waiting when stop() was invoked, every call has returned
\* ServerNotRunning, and stop() has returned.
C2_Witness ==
    /\ waitingAtStop = Workers
    /\ \A w \in Workers :
          pc[w] = "done" /\ res[w] = APIServerNotRunningErrorResponse
    /\ hpc = "idle" /\ ~is_running /\ queue_lock = Free

\* C3: on a running server whose host never calls dispatch_queue() or stop(),
\* a call waiting on its queued request eventually returns, what it returns
\* is the TimedOut error response, the request was never dispatched, and the
\* queue does not hold the request once the call has returned.
C3_TimesOut ==
    /\ \A w \in Workers :
          (pc[w] = "wait") ~>
             (/\ pc[w] = "done"
              /\ res[w] = APITimedOutErrorResponse
              /\ ~InSeq(queue, w))
    /\ [](\A w \in Workers :
             (kind[w] = Blocking /\ pc[w] = "done") =>
                /\ timed_out[w]
                /\ res[w] = APITimedOutErrorResponse
                /\ dispatchedBy[w] = <<>>
                /\ ~InSeq(queue, w))

\* Both calls queued their request and both have timed out and returned.
C3_Witness ==
    /\ \A w \in Workers :
          /\ kind[w] = Blocking
          /\ pc[w] = "done"
          /\ res[w] = APITimedOutErrorResponse
    /\ queue = <<>>

\* C5 as stated: no exception ever leaves dispatch_request, neither on the
\* host thread inside dispatch_queue, which therefore always reaches its
\* signalling pass, nor on a worker thread.
C5_NeverPropagates ==
    /\ ~hostRaised
    /\ abandoned = {}
    /\ \A w \in Workers : pc[w] # "raised"

\* C8: a stop() call never gets stuck and raises nothing, and when it
\* returns is_running is false, the listener and thread lists and the queue
\* are empty and the queue lock is released; on a server that is not running
\* (never started, or stopped before) the lists are empty all along and
\* is_running stays false.
C8_StopSafe ==
    [][/\ hpc \in StopPcs =>
            /\ ENABLED HostInProgress
            /\ hostRaised' = hostRaised
            /\ ~is_running =>
                  /\ listeners = <<>> /\ threads = <<>>
                  /\ listeners' = <<>> /\ threads' = <<>>
                  /\ ~is_running'
       /\ (hpc \in StopPcs /\ hpc' = "idle") =>
            /\ ~is_running'
            /\ listeners' = <<>> /\ threads' = <<>>
            /\ queue' = <<>>
            /\ queue_lock' = Free
      ]_vars

\* stop() is about to return for the second time since start(): an earlier
\* stop() cancelled the request of worker 1, and the server is not running.
C8_Witness ==
    /\ hpc = "stop_release"
    /\ ~is_running
    /\ 1 \in waitingAtStop
    /\ pc[1] = "done" /\ res[1] = APIServerNotRunningErrorResponse

\* Positions of the requests whose send raised.
Failed == {i \in 1..Len(texception) : texception[i] # NoException}

\* The smallest element of a non-empty set of numbers.
Lowest(S) == CHOOSE i \in S : \A j \in S : i <= j

\* C9: send_requests starts one thread per request, all of them running
\* before the first is joined; it returns or raises only when every thread
\* has finished; with no failure the result is the list whose i-th element
\* is the response to the i-th request; otherwise it raises the failure of
\* the lowest-indexed failing request and returns no responses.
C9_OrderedResponses ==
    [][/\ (cpc = "start" /\ cpc' = "join") =>
            /\ Len(tstate') = Len(reqs')
            /\ \A i \in 1..Len(tstate') : tstate'[i] \in {"running", "finished"}
       /\ cpc' = "return" => \A i \in 1..Len(tstate') : tstate'[i] = "finished"
       /\ (cpc = "return" /\ cpc' # "return") =>
            IF Failed = {}
            THEN /\ ~results'.raised
                 /\ Len(results'.responses) = Len(reqs)
                 /\ \A i \in 1..Len(reqs) :
                       results'.responses[i] = ResponseTo(i)
            ELSE /\ results'.raised
                 /\ results'.exception = texception[Lowest(Failed)]
                 /\ results'.exception.request = Lowest(Failed)
                 /\ results'.responses = <<>>
      ]_vars

\* The second send completed before the first, and the responses came back
\* in the order of the requests.
C9_Witness ==
    /\ finished = <<2, 1>>
    /\ cpc = "loop"
    /\ ~results.raised
    /\ results.responses = <<ResponseTo(1), ResponseTo(2)>>

\* C10: an iteration of the run loop that finds no cached server version
\* sends a version request first.  On its response: with the async
\* capability the client runs one update and then sets block to false; else
\* with supports_blocking it sets block to true; else it raises
\* BlockingNotSupportedError.  block changes nowhere else, and it decides
\* what the loop sends: update batches when true, null requests when false.
C10_Negotiation ==
    [][/\ (cpc = "loop" /\ cpc' # "loop" /\ ~done) =>
            cpc' = IF server_version = NoVersion THEN "version" ELSE "mode"
       /\ (cpc = "version" /\ cpc' # "version") =>
            /\ iterSent' = <<"version">>
            /\ server_version' # NoVersion =>
                  /\ server_version'.async =>
                        /\ cpc' = "update" /\ caller' = "negotiate"
                        /\ block' = block
                  /\ (~server_version'.async /\ supports_blocking) =>
                        block' /\ cpc' = "mode"
                  /\ (~server_version'.async /\ ~supports_blocking) =>
                        /\ cpc' = "raised"
                        /\ error' = BlockingNotSupportedError
                        /\ block' = block
       /\ (cpc = "return" /\ caller = "negotiate" /\ cpc' = "mode") =>
            ~block' /\ iterSent = <<"version", "update">>
       /\ block' # block =>
            \/ cpc = "version"
            \/ cpc = "return" /\ caller = "negotiate"
       /\ (cpc = "mode" /\ cpc' # "mode") =>
            cpc' = IF block THEN "update" ELSE "null"
      ]_vars

\* The server advertised async: the client has run its one update, has set
\* block to false and is about to poll with a null request.
C10_Witness ==
    /\ cpc = "null"
    /\ ~block
    /\ server_version = VersionResponse(TRUE)
    /\ iterSent = <<"version", "update">>
    /\ iterCallbacks = 1

\* Positions of the requests of the last batch whose send raised a
\* ConnectionError.
ConnectionFailed ==
    {i \in 1..Len(texception) : texception[i].exception = ConnectionError}

\* C11 as stated: whenever any request of an update batch failed with a
\* connection failure, send_requests hands the run loop a connection failure
\* and the loop recovers from it.
C11_AnyConnectionFailureRecovers ==
    [][(cpc = "return" /\ cpc' # "return" /\ ConnectionFailed # {}) =>
            cpc' = "except"
      ]_vars

\* C11, amended: a connection failure that reaches the run loop, from the
\* version request, from the null request or from an update batch whose
\* lowest-indexed failing request failed with a connection failure, is
\* reported to the callback with an error, the cached server version is
\* dropped, and the loop goes on: its next iteration sends a version request
\* before any update or null request.  The run loop ends by an exception
\* only for a failure that is not a connection failure.
C11_ConnectionLossRecovery ==
    [][/\ (cpc = "return" /\ cpc' # "return" /\ Failed # {}) =>
            cpc' = IF Lowest(Failed) \in ConnectionFailed
                   THEN "except" ELSE "raised"
       /\ cpc' = "except" => cpc \in {"version", "null", "return", "except"}
       /\ (cpc = "except" /\ cpc' # "except") =>
            /\ cpc' = "loop"
            /\ lastCallback' = [results |-> <<>>, error |-> TRUE]
            /\ iterCallbacks' = iterCallbacks + 1
            /\ server_version' = NoVersion
            /\ error' = error
       /\ (cpc = "loop" /\ cpc' # "loop" /\ server_version = NoVersion) =>
            cpc' \in {"version", "exit"} /\ (cpc' = "exit" => done)
       /\ server_version' = NoVersion =>
            cpc' \in {"loop", "version", "except", "raised", "exit"}
       /\ cpc' = "raised" =>
            error' \in {OtherError, BlockingNotSupportedError}
      ]_vars

\* In blocking mode the second request of a batch failed with a connection
\* failure and the first did not fail: the callback got the error, the
\* version is dropped and the loop is about to send a version request.
C11_Witness ==
    /\ Len(texception) = 2
    /\ texception[1] = NoException
    /\ texception[2].exception = ConnectionError
    /\ cpc = "version"
    /\ block
    /\ server_version = NoVersion
    /\ lastCallback.error

\* C12: Client.stop() only sets the done flag, which is never cleared: the
\* step that sets it changes nothing else, and a request in flight still
\* completes.  With done set, the loop condition ends the loop instead of
\* starting an iteration, and as every request returns or fails the run
\* loop eventually ends, by leaving the loop or by an exception.
C12_Termination ==
    /\ [][/\ done => done'
          /\ done' # done =>
                UNCHANGED <<server_version, block, sentNull, cpc, caller,
                            threadVars,
                            results, lastCallback, iterSent, iterCallbacks,
                            error>>
          /\ (done /\ cpc = "loop" /\ cpc' # "loop") => cpc' = "exit"
          /\ cpc = "exit" => cpc' = "exit"
          /\ \A i \in 1..Len(tstate) :
                (done /\ tstate[i] = "running") => ENABLED ClientThreadRun(i)
         ]_vars
    /\ done ~> (cpc \in {"exit", "raised"})

\* stop() was called while a batch was in flight: both sends completed, the
\* results were delivered, and the loop has ended.
C12_Witness ==
    /\ done
    /\ cpc = "exit"
    /\ finished = <<2, 1>>
    /\ ~results.raised
    /\ lastCallback = [results |-> <<ResponseTo(1), ResponseTo(2)>>,
                       error |-> FALSE]

\* The requests of the batch the host is working on.
BatchRequests == {q[i] : i \in 1..Len(q)}

\* C13: when the host is in the signalling pass of dispatch_queue or of
\* cancel_queue, or any request of its batch has been signalled, every
\* request of the batch has its response written; and a signalled request
\* always has a response.
C13_SignalAfterAllResponses ==
    /\ (\/ hpc \in {"dispatch_signal", "cancel_signal"}
        \/ \E w \in BatchRequests : signalled[w]) =>
          \A w \in BatchRequests : response[w] # None
    /\ \A w \in Workers : signalled[w] => response[w] # None

\* dispatch_queue has signalled the first request of a batch of two and not
\* yet the second, whose response is already written.
C13_Witness ==
    /\ hpc = "dispatch_signal"
    /\ Len(q) = 2
    /\ hi = 2
    /\ signalled[q[1]]
    /\ ~signalled[q[2]]
    /\ response[q[2]] # None

\* C14: a worker's append puts its request at the end of the queue, and the
\* queue changes otherwise only by losing one request or all of them, so the
\* queue is in the order of the completed appends; dispatch_queue takes the
\* queue as its batch in that order and keeps it; it dispatches the batch
\* front to back, one request at a time: when a request is dispatched, the
\* requests before it in the batch have been dispatched and none after it.
C14_FIFO ==
    [][/\ \A w \in Workers :
            (pc[w] = "append" /\ pc'[w] = "wait") => queue' = Append(queue, w)
       /\ queue' # queue =>
            \/ \E w \in Workers : queue' = Append(queue, w)
            \/ \E w \in Workers : queue' = Without(queue, w)
            \/ queue' = <<>>
       /\ (hpc = "dispatch_swap" /\ hpc' = "dispatch_each") => q' = queue
       /\ (hpc = "dispatch_each" /\ hpc' # "idle") => q' = q
       /\ hpc = "dispatch_each" =>
            /\ \A j \in 1..Len(q) :
                  (j < hi) <=> (dispatchedBy[q[j]] = <<Host>>)
            /\ \A j \in 1..Len(q) :
                  dispatchedBy'[q[j]] # dispatchedBy[q[j]] =>
                     j = hi /\ dispatchedBy'[q[j]] = <<Host>>
      ]_vars

\* Worker 2 appended before worker 1; the host has dispatched the request of
\* worker 2 and not yet that of worker 1.
C14_Witness ==
    /\ hpc = "dispatch_each"
    /\ q = <<2, 1>>
    /\ hi = 2
    /\ dispatchedBy[2] = <<Host>>
    /\ dispatchedBy[1] = <<>>

\* C15 as stated: the lock is held only around a queue operation, so the
\* host holds it only to swap the queue out, in dispatch_queue or in
\* cancel_queue, and never while it joins the listener threads.
C15_LockOnlyAroundQueueOperations ==
    queue_lock = Host => hpc \in {"dispatch_swap", "cancel_swap"}

\* C15, amended: a worker holds the lock only for its append and for its
\* removal, never while it dispatches or waits on its request; inside
\* dispatch_queue the host holds the lock only for the swap, never while it
\* dispatches or signals the batch, when only a worker in its append or
\* removal can hold it, so a batch in progress never stalls an enqueue.
\* stop() is the exception: it holds the lock from its first step to its
\* return, across the listener shutdown, cancel_queue and the thread joins,
\* but over no Dispatcher call.
C15_LockDiscipline ==
    /\ \A w \in Workers :
          /\ queue_lock = Worker(w) <=> pc[w] \in {"appending", "removing"}
          /\ pc[w] \in {"dispatching", "wait"} => queue_lock # Worker(w)
    /\ queue_lock = Host <=> hpc \in {"dispatch_swap"} \cup StopPcs
    /\ hpc \in {"dispatch_each", "dispatch_signal"} =>
          /\ queue_lock # Host
          /\ \A w \in Workers :
                pc[w] = "append" =>
                   \/ ENABLED HandleRequestAcquireAppend(w)
                   \/ \E v \in Workers \ {w} :
                         /\ queue_lock = Worker(v)
                         /\ ENABLED HandleRequestAppendRelease(v)
                            \/ ENABLED HandleRequestRemoveRelease(v)

\* While the host dispatches a batch holding the request of worker 1,
\* worker 2 has taken the lock for its append.
C15_Witness ==
    /\ hpc = "dispatch_each"
    /\ q = <<1>>
    /\ pc[1] = "wait"
    /\ pc[2] = "appending"
    /\ queue_lock = Worker(2)

\* The threads that are at a call of dispatch_request: a worker at line 246,
\* the host at line 276 with a request of its batch left to dispatch.
InDispatcher ==
    {Worker(w) : w \in {v \in Workers : pc[v] = "dispatching"}}
       \cup (IF hpc = "dispatch_each" /\ hi <= Len(q) THEN {Host} ELSE {})

\* C16 as stated: at any time at most one thread is inside the Dispatcher:
\* no worker while the host dispatches a batch, and no two workers at once.
C16_ExclusiveDispatch == Cardinality(InDispatcher) <= 1

\* C17: the call of a blocking request that passed the checks is only ever
\* at its append, its wait or its removal, or has returned, never at a
\* Dispatcher call of its own; the request is dispatched by the host thread
\* or not at all, by the host only inside dispatch_queue; and unless the
\* wait timed out, what the call returns is what it read from the result
\* slot.
C17_BlockingOnHostThread ==
    /\ \A w \in Workers :
          kind[w] = Blocking =>
             /\ pc[w] \in {"append", "wait", "remove", "done"}
             /\ dispatchedBy[w] \in {<<>>, <<Host>>}
             /\ (pc[w] \in {"remove", "done"} /\ ~timed_out[w]) =>
                   /\ dispatchedBy[w] = <<Host>> \/ w \in waitingAtStop
                   /\ res[w] = response[w]
    /\ \A w \in BatchRequests : kind[w] = Blocking
    /\ \A i \in 1..Len(queue) : kind[queue[i]] = Blocking

\* The blocking request of worker 1 was dispatched by the host and its call
\* returned the result; the non-blocking request of worker 2 was dispatched
\* by worker 2.
C17_Witness ==
    /\ kind[1] = Blocking
    /\ pc[1] = "done"
    /\ dispatchedBy[1] = <<Host>>
    /\ res[1] = APISuccessResponse
    /\ kind[2] = NonBlocking
    /\ dispatchedBy[2] = <<Worker(2)>>

\* The transports start() runs a listener for.
Configured == {t \in Transports : config[t]}

\* Positions of the host thread inside start().
StartPcs ==
    {"run_tcp", "tcp_thread", "tcp_listener", "run_domain", "domain_thread",
     "domain_listener", "start_running"}

\* C18 as stated: in every state the listener list and the thread list have
\* the same length, and while is_running is true each configured transport
\* has its listener and its thread in the lists.
C18_ListsAlwaysInStep ==
    /\ Len(listeners) = Len(threads)
    /\ is_running =>
          \A t \in Configured : InSeq(listeners, t) /\ InSeq(threads, t)

\* C18, amended: is_running becomes true only as the last step of start(),
\* with every configured listener serving and recorded in both lists; a
\* request handled while start() is under way on a server that is not
\* running is answered ServerNotRunning at once; the two lists have the
\* same length except between the two appends of run_listener and between
\* the two assignments by which stop() clears them; and while is_running is
\* true each configured transport has its listener and its thread in the
\* lists, except while stop() clears the lists before it resets the flag.
C18_RunningAfterListeners ==
    [][/\ \/ Len(listeners') = Len(threads')
          \/ hpc' \in {"tcp_listener", "domain_listener", "stop_threads"}
       /\ (is_running' /\ hpc' \notin {"stop_threads", "stop_running"}) =>
            \A t \in Configured : InSeq(listeners', t) /\ InSeq(threads', t)
       /\ (is_running' /\ ~is_running) =>
            /\ hpc = "start_running" /\ hpc' = "idle"
            /\ \A t \in Configured : serving[t] > 0
            /\ \A t \in Configured : InSeq(listeners, t) /\ InSeq(threads, t)
            /\ listeners' = listeners /\ threads' = threads
       /\ \A w \in Workers :
            (/\ hpc \in StartPcs /\ ~is_running
             /\ pc[w] = "idle" /\ pc'[w] # "idle") =>
               /\ pc'[w] = "done"
               /\ res'[w] = APIServerNotRunningErrorResponse
      ]_vars

\* Both listeners are configured; the TCP listener is serving and recorded,
\* start() has not yet started the domain listener, and a request handled
\* by worker 1 was answered ServerNotRunning.
C18_Witness ==
    /\ hpc = "run_domain"
    /\ config = [tcp |-> TRUE, domain |-> TRUE]
    /\ serving = [t \in Transports |-> IF t = "tcp" THEN 1 ELSE 0]
    /\ listeners = <<"tcp">> /\ threads = <<"tcp">>
    /\ ~is_running
    /\ pc[1] = "done"
    /\ res[1] = APIServerNotRunningErrorResponse

\* The requests Client.run may have sent by the end of an iteration in
\* blocking mode and in async mode; an iteration that had to negotiate
\* starts with the version request (and, for async, the update after it).
BlockingIterations == {<<"update">>, <<"version", "update">>}
AsyncIterations ==
    {<<"null">>, <<"null", "update">>,
     <<"version", "update", "null">>,
     <<"version", "update", "null", "update">>}

\* The callback argument for the results of the batch reqs.
CallbackWith(batch) ==
    [results |-> [i \in 1..Len(batch) |-> ResponseTo(i)], error |-> FALSE]

\* C19: an iteration that ends without a failure has, in blocking mode, run
\* exactly one update batch and called the callback once, with the results
\* of the batch; in async mode it has sent exactly one null request and, if
\* that succeeded, run one update batch after it.  The null request carries
\* block true.  A successful null response replaces the cached version and
\* starts an update; an unsuccessful one leaves version and callback alone
\* and ends the iteration.  Every request of a batch carries the client's
\* block flag: true in blocking mode, false after a null request.
C19_SteadyModes ==
    [][/\ (cpc \notin {"loop", "except"} /\ cpc' = "loop") =>
            IF block'
            THEN /\ iterSent' \in BlockingIterations
                 /\ iterCallbacks' = 1
                 /\ lastCallback' = CallbackWith(reqs')
            ELSE /\ iterSent' \in AsyncIterations
                 /\ (iterSent'[Len(iterSent')] = "update") =>
                       lastCallback' = CallbackWith(reqs')
                 /\ iterCallbacks' =
                       Cardinality({i \in 1..Len(iterSent') :
                                       iterSent'[i] = "update"})
       /\ (cpc = "null" /\ cpc' # "null") =>
            /\ sentNull' = [type |-> "null", block |-> TRUE]
            /\ cpc' = "update" =>
                  /\ server_version' = NullResponse(TRUE)
                  /\ caller' = "async"
            /\ cpc' = "loop" =>
                  /\ server_version' = server_version
                  /\ lastCallback' = lastCallback
                  /\ iterCallbacks' = iterCallbacks
       /\ (cpc = "update" /\ cpc' = "start" /\ caller # "negotiate") =>
            /\ \A i \in 1..Len(reqs') :
                  reqs'[i].block = (caller = "blocking")
            /\ block = (caller = "blocking")
            /\ Len(tstate') = Len(reqs')
      ]_vars

\* An iteration in async mode has ended: one null request, which succeeded,
\* then one update batch of two requests with block false, and one callback.
C19_Witness ==
    /\ cpc = "loop"
    /\ ~block
    /\ iterSent = <<"null", "update">>
    /\ sentNull = NullRequest
    /\ server_version = NullResponse(TRUE)
    /\ reqs = <<[block |-> FALSE], [block |-> FALSE]>>
    /\ iterCallbacks = 1
    /\ lastCallback = CallbackWith(reqs)

\* C20 as stated: while the server is not running and no stop() is in
\* progress, the queue is empty: a call that passed the is_running check
\* before stop() began does not append after cancel_queue drained the queue.
C20_QueueEmptyAfterStop ==
    (~is_running /\ hpc \notin StopPcs) => queue = <<>>

\* C21 as stated: the Dispatcher never runs a request whose wait has timed
\* out.
C21_TimedOutNeverDispatched ==
    [][\A w \in Workers :
          dispatchedBy'[w] # dispatchedBy[w] => ~timed_out[w]
      ]_vars

\* C21, amended: a call whose wait timed out returns TimedOut and nothing the
\* Dispatcher does later changes that; its request is dispatched at most
\* once, and after the timeout only by the host working on a batch that
\* took the request off the queue before the worker removed it; once the
\* call has returned, no dispatch_queue swap takes the request.
C21_TimedOutAnswered ==
    [][\A w \in Workers :
          /\ timed_out'[w] => res'[w] = APITimedOutErrorResponse
          /\ timed_out[w] => timed_out'[w]
          /\ Len(dispatchedBy'[w]) <= 1
          /\ (timed_out[w] /\ dispatchedBy'[w] # dispatchedBy[w]) =>
                /\ hpc = "dispatch_each"
                /\ hi <= Len(q) /\ q[hi] = w
                /\ dispatchedBy'[w] = <<Host>>
          /\ (hpc = "dispatch_swap" /\ hpc' = "dispatch_each"
                /\ pc[w] = "done") => ~InSeq(q', w)
      ]_vars

\* The wait of worker 1 timed out and its call returned TimedOut; the host
\* dispatched the request all the same and wrote a response nobody reads.
C21_Witness ==
    /\ timed_out[1]
    /\ pc[1] = "done"
    /\ res[1] = APITimedOutErrorResponse
    /\ dispatchedBy[1] = <<Host>>
    /\ response[1] = APISuccessResponse

=============================================================================
